---- MODULE Spec2Model ----
(***************************************************************************)
(* The sales dashboard of app.py as a state machine: the base table df,    *)
(* the filter controls, the dcc.Store holding the retained rows, the       *)
(* outputs of update_dashboard and the output of download_report.          *)
(***************************************************************************)
EXTENDS Integers, Sequences, FiniteSets, TLC

VARIABLES
  df,                   \* the base table loaded at start-up (a sequence of rows)
  continent,            \* continent-filter.value
  countries,            \* country-filter.value
  products,             \* product-filter.value
  start_date,           \* date-filter.start_date
  end_date,             \* date-filter.end_date
  trend_view,           \* trend-view-filter.value
  country_options,      \* country-filter.options
  args,                 \* the filter values the last cycle computed with
  kpi_cards,            \* kpi-cards.children
  figures,              \* the six figures
  filtered_data,        \* filtered-data.data (the dcc.Store)
  error_message,        \* error-message.children
  summary_stats_table,  \* summary-stats-table.children
  download_data,        \* download-dataframe.data
  trigger,              \* which callback ran last, and on which trigger
  targets               \* the module-level dict TARGETS as it stands

vars == <<df, continent, countries, products, start_date, end_date, trend_view,
          country_options, args, kpi_cards, figures, filtered_data,
          error_message, summary_stats_table, download_data, trigger, targets>>

(***************************************************************************)
(* Bounds of the model.                                                    *)
(***************************************************************************)
\* calendar days present in the data: 1..MaxDay
MaxDay == 2
\* rows of the base table under Spec
MaxRows == 2
\* rows of the base table under SpecFilter
MaxFilterRows == 2
\* rows of the base table under SpecAgg
MaxAggRows == 2
\* rows of the all-demo tables under SpecCard
MaxCardRows == 100

(***************************************************************************)
(* Python values.                                                          *)
(***************************************************************************)
\* Python's None where a string is expected
None == "<None>"
\* Python's None where a list is expected
NoneList == <<None>>
\* truth value of an optional string (if continent:, if start_date and ...)
Truthy(v) == v # None /\ v # ""
\* truth value of an optional list (if countries:, if products:)
TruthyList(l) == l # NoneList /\ l # <<>>
\* Series.isin(values)
isin(x, l) == \E i \in DOMAIN l : l[i] = x

RECURSIVE SumSeq(_)
SumSeq(s) == IF s = <<>> THEN 0 ELSE Head(s) + SumSeq(Tail(s))

\* the elements of a set of integers in ascending order
RECURSIVE Sorted(_)
Sorted(S) ==
  IF S = {} THEN <<>>
  ELSE LET m == CHOOSE x \in S : \A y \in S : x <= y
       IN <<m>> \o Sorted(S \ {m})

\* the elements of a set of strings, one after the other
RECURSIVE Listed(_)
Listed(S) ==
  IF S = {} THEN <<>>
  ELSE LET m == CHOOSE x \in S : TRUE IN <<m>> \o Listed(S \ {m})

(***************************************************************************)
(* Dates and timestamps.  A date is a day number; on the wire (control     *)
(* values, store records) dates and timestamps are ISO strings.            *)
(***************************************************************************)
Days == 1..MaxDay
Hours == 0..23
Digits == <<"0", "1", "2", "3", "4", "5", "6", "7", "8", "9">>
TwoDigits(n) == Digits[(n \div 10) + 1] \o Digits[(n % 10) + 1]
\* the days pd.to_datetime can return here: the days of the data and one later
Calendar == 1..(MaxDay + 1)
\* str(date), and the JSON form of a date object
IsoDates == [d \in Calendar |-> "2024-03-" \o TwoDigits(d)]
IsoDate(d) == IsoDates[d]
\* the JSON form of a pandas Timestamp (minutes and seconds are never read)
IsoTimestamps ==
  [ts \in [date : Calendar, hour : Hours] |->
     IsoDates[ts.date] \o "T" \o TwoDigits(ts.hour) \o ":00:00"]
IsoTimestamp(ts) == IsoTimestamps[ts]
\* what pd.to_datetime reads from a date string, from a timestamp string
ParsedDates == [s \in {IsoDate(d) : d \in Calendar} |->
                  [date |-> CHOOSE d \in Calendar : IsoDate(d) = s, hour |-> 0]]
ParsedTimestamps ==
  [s \in {IsoTimestamp(ts) : ts \in [date : Calendar, hour : Hours]} |->
     CHOOSE ts \in [date : Calendar, hour : Hours] : IsoTimestamp(ts) = s]
\* whether pd.to_datetime(s) returns a timestamp (it raises otherwise)
Parses(s) == s \in DOMAIN ParsedDates \/ s \in DOMAIN ParsedTimestamps
\* pd.to_datetime(s), for a string that parses
to_datetime(s) ==
  IF s \in DOMAIN ParsedDates THEN ParsedDates[s] ELSE ParsedTimestamps[s]

(***************************************************************************)
(* Rows of the sales data, as synthetic_dataset.py generates them and the  *)
(* loader cleans them.                                                     *)
(***************************************************************************)
CONTINENTS == [c \in {"Germany", "Japan"} |->
                 IF c = "Germany" THEN "Europe" ELSE "Asia"]
PRODUCT_TYPES == {"AI-Powered CRM", "Virtual Assistant Suite"}
REQUEST_TYPES == {"demo", "ai_assist", "promo", "job"}

\* one generated row
Row(country, product, rtype, flag, d, h) ==
  [timestamp      |-> [date |-> d, hour |-> h],
   continent      |-> CONTINENTS[country],
   country        |-> country,
   salesperson_id |-> IF country = "Germany" THEN "SP001" ELSE "SP002",
   product_type   |-> product,
   request_type   |-> rtype,
   job_type       |-> IF rtype = "job" THEN "consulting" ELSE "None",
   revenue        |-> IF flag = 1 THEN 150 ELSE 0,
   purchase_flag  |-> flag,
   affiliate_code |-> IF rtype = "promo" THEN "AF001" ELSE "None"]

Rows(cs, ps, rts, flags, ds, hs) ==
  {Row(c, p, rt, f, d, h) : c \in cs, p \in ps, rt \in rts,
                            f \in flags, d \in ds, h \in hs}

\* every table of at most n rows
Tables(R, n) == UNION {[1..k -> R] : k \in 0..n}

(***************************************************************************)
(* Module-level values derived from df.                                    *)
(***************************************************************************)
DatesOf(t) == {t[i].timestamp.date : i \in DOMAIN t}
Least(S) == CHOOSE x \in S : \A y \in S : x <= y
Greatest(S) == CHOOSE x \in S : \A y \in S : x >= y
min_date == IF df # <<>> THEN Least(DatesOf(df)) ELSE 1
max_date == IF df # <<>> THEN Greatest(DatesOf(df)) ELSE MaxDay
continent_options == {df[i].continent : i \in DOMAIN df}
product_options == {df[i].product_type : i \in DOMAIN df}
continent_countries(c) == {df[i].country : i \in {j \in DOMAIN df : df[j].continent = c}}

\* the literal the module assigns to TARGETS
TARGETS == [revenue |-> 500000, conversion_rate |-> 20, demo_to_purchase |-> 30,
            jobs_placed |-> 50, ai_assist_requests |-> 100, promo_requests |-> 50]

\* variant: every country of the table, whatever the continent
update_country_filter_all(c) == {df[i].country : i \in DOMAIN df}
\* update_country_filter: the country options for a continent value
update_country_filter(c) ==
  IF ~Truthy(c) \/ df = <<>>
  THEN {df[i].country : i \in DOMAIN df}
  ELSE continent_countries(c)

(***************************************************************************)
(* The filter steps of update_dashboard.                                   *)
(***************************************************************************)
by_continent(t, c) ==
  IF Truthy(c) THEN SelectSeq(t, LAMBDA r : r.continent = c) ELSE t
by_countries(t, cs) ==
  IF TruthyList(cs) THEN SelectSeq(t, LAMBDA r : isin(r.country, cs)) ELSE t
by_products(t, ps) ==
  IF TruthyList(ps) THEN SelectSeq(t, LAMBDA r : isin(r.product_type, ps)) ELSE t
\* the date step, for bounds that parse
by_dates(t, s, e) ==
  IF Truthy(s) /\ Truthy(e)
  THEN LET sd == to_datetime(s).date
           ed == to_datetime(e).date
       IN SelectSeq(t, LAMBDA r : r.timestamp.date >= sd /\ r.timestamp.date <= ed)
  ELSE t
\* variant: the product step left out
apply_filters_without_products(t, c, cs, ps, s, e) ==
  by_dates(by_countries(by_continent(t, c), cs), s, e)
\* the four steps in the order of update_dashboard
apply_filters(t, c, cs, ps, s, e) ==
  by_dates(by_products(by_countries(by_continent(t, c), cs), ps), s, e)

(***************************************************************************)
(* Numbers.  A value that pandas holds as a float is kept exactly: a ratio *)
(* num/den, the square root of a ratio, or NaN.                            *)
(***************************************************************************)
Ratio(n, d) == [kind |-> "ratio", num |-> n, den |-> d]
SqrtOf(n, d) == [kind |-> "sqrt", num |-> n, den |-> d]
NaN == [kind |-> "nan", num |-> 0, den |-> 1]

\* the nearest integer to a/b (a >= 0, b > 0), a tie going to the even one
RoundHalfEven(a, b) ==
  LET q == a \div b
      r == a % b
  IN IF 2 * r < b THEN q
     ELSE IF 2 * r > b THEN q + 1
     ELSE IF q % 2 = 0 THEN q ELSE q + 1

RECURSIVE ISqrt(_)
\* the integer part of the square root of n
ISqrt(n) ==
  IF n < 2 THEN n
  ELSE LET s == 2 * ISqrt(n \div 4)
       IN IF (s + 1) * (s + 1) <= n THEN s + 1 ELSE s

\* Series.round(2): the value in hundredths
round2(x) ==
  IF x.kind = "nan" THEN NaN
  ELSE IF x.kind = "ratio" THEN Ratio(RoundHalfEven(100 * x.num, x.den), 100)
  ELSE Ratio((ISqrt((40000 * x.num) \div x.den) + 1) \div 2, 100)

RECURSIVE Insert(_, _)
Insert(x, s) ==
  IF s = <<>> THEN <<x>>
  ELSE IF x <= Head(s) THEN <<x>> \o s
  ELSE <<Head(s)>> \o Insert(x, Tail(s))
RECURSIVE SortInts(_)
SortInts(s) == IF s = <<>> THEN <<>> ELSE Insert(Head(s), SortInts(Tail(s)))

\* Series.mean()
mean(s) == IF s = <<>> THEN NaN ELSE Ratio(SumSeq(s), Len(s))
\* Series.median()
median(s) ==
  LET n == Len(s)
      o == SortInts(s)
  IN IF n = 0 THEN NaN
     ELSE IF n % 2 = 1 THEN Ratio(o[(n + 1) \div 2], 1)
     ELSE Ratio(o[n \div 2] + o[(n \div 2) + 1], 2)
\* Series.std(): the sample standard deviation (ddof = 1), NaN below two values
std(s) ==
  LET n == Len(s)
      sq == [i \in DOMAIN s |-> s[i] * s[i]]
  IN IF n < 2 THEN NaN
     ELSE SqrtOf(n * SumSeq(sq) - SumSeq(s) * SumSeq(s), n * (n - 1))

\* len(t[mask]): the number of rows a boolean mask selects
Count(mask) == Cardinality({i \in DOMAIN mask : mask[i]})
\* t[col].sum()
SumOf(t, col) == SumSeq([i \in DOMAIN t |-> t[i][col]])

(***************************************************************************)
(* Summary statistics: the live table of update_dashboard and the report   *)
(* of download_report.                                                     *)
(***************************************************************************)
METRICS == <<"Demo Requests", "AI Assist Requests", "Promo Events", "Job Placements">>

\* groupby(['date', 'request_type']).size().unstack(fill_value=0), one column:
\* the daily counts of request type rt over the dates present, zeros when the
\* column is absent (stats_data.get(rt, pd.Series(0, ...)))
daily_counts(t, date, rt) ==
  LET ds == Sorted({date[i] : i \in DOMAIN t})
  IN IF \E i \in DOMAIN t : t[i].request_type = rt
     THEN [k \in DOMAIN ds |->
             Count([i \in DOMAIN t |-> date[i] = ds[k] /\ t[i].request_type = rt])]
     ELSE [k \in DOMAIN ds |-> 0]
\* the daily job placements, left-joined onto the dates present, fillna(0)
daily_job_placements(t, date) ==
  LET ds == Sorted({date[i] : i \in DOMAIN t})
  IN [k \in DOMAIN ds |->
        Count([i \in DOMAIN t |-> date[i] = ds[k] /\ t[i].job_type # "None"])]

\* filtered_df['date'] = filtered_df['timestamp'].dt.date
live_date(t) == [i \in DOMAIN t |-> t[i].timestamp.date]
\* the summary table of update_dashboard, rounded to two decimals
live_summary_stats(t) ==
  LET series == <<daily_counts(t, live_date(t), "demo"),
                  daily_counts(t, live_date(t), "ai_assist"),
                  daily_counts(t, live_date(t), "promo"),
                  daily_job_placements(t, live_date(t))>>
  IN [m \in 1..4 |->
        [Metric |-> METRICS[m],
         Mean   |-> round2(mean(series[m])),
         Median |-> round2(median(series[m])),
         Std    |-> round2(std(series[m]))]]

\* filtered_df['date'] = pd.to_datetime(filtered_df['timestamp']).dt.date
export_date(records) ==
  [i \in DOMAIN records |-> to_datetime(records[i].timestamp).date]
\* variant: the report with the population standard deviation (ddof = 0)
export_summary_stats_ddof0(records) ==
  LET series == <<daily_counts(records, export_date(records), "demo"),
                  daily_counts(records, export_date(records), "ai_assist"),
                  daily_counts(records, export_date(records), "promo"),
                  daily_job_placements(records, export_date(records))>>
      pstd(x) == IF Len(x) = 0 THEN NaN
                 ELSE SqrtOf(Len(x) * SumSeq([i \in DOMAIN x |-> x[i] * x[i]])
                               - SumSeq(x) * SumSeq(x), Len(x) * Len(x))
  IN [m \in 1..4 |->
        [Metric |-> METRICS[m],
         Mean   |-> mean(series[m]),
         Median |-> median(series[m]),
         Std    |-> pstd(series[m])]]
\* the report of download_report, not rounded
export_summary_stats(records) ==
  LET series == <<daily_counts(records, export_date(records), "demo"),
                  daily_counts(records, export_date(records), "ai_assist"),
                  daily_counts(records, export_date(records), "promo"),
                  daily_job_placements(records, export_date(records))>>
  IN [m \in 1..4 |->
        [Metric |-> METRICS[m],
         Mean   |-> mean(series[m]),
         Median |-> median(series[m]),
         Std    |-> std(series[m])]]

\* variant: the records with the timestamp cut to its date
to_records_date_only(t) ==
  [i \in DOMAIN t |->
     [timestamp      |-> IsoTimestamp([date |-> t[i].timestamp.date, hour |-> 0]),
      continent      |-> t[i].continent,
      country        |-> t[i].country,
      salesperson_id |-> t[i].salesperson_id,
      product_type   |-> t[i].product_type,
      request_type   |-> t[i].request_type,
      job_type       |-> t[i].job_type,
      revenue        |-> t[i].revenue,
      purchase_flag  |-> t[i].purchase_flag,
      affiliate_code |-> t[i].affiliate_code,
      date           |-> IsoDate(t[i].timestamp.date),
      hour           |-> t[i].timestamp.hour]]
\* filtered_df.to_dict('records') as the store holds it: the columns of df,
\* the added date and hour columns, dates and timestamps in their JSON form
to_records(t) ==
  [i \in DOMAIN t |->
     [timestamp      |-> IsoTimestamp(t[i].timestamp),
      continent      |-> t[i].continent,
      country        |-> t[i].country,
      salesperson_id |-> t[i].salesperson_id,
      product_type   |-> t[i].product_type,
      request_type   |-> t[i].request_type,
      job_type       |-> t[i].job_type,
      revenue        |-> t[i].revenue,
      purchase_flag  |-> t[i].purchase_flag,
      affiliate_code |-> t[i].affiliate_code,
      date           |-> IsoDate(t[i].timestamp.date),
      hour           |-> t[i].timestamp.hour]]

\* download_report: no file (None) when the store holds None or no record
\* (if not filtered_data), the report otherwise
NoFile == <<>>
\* variant: the report over the whole base table, whatever the store holds
download_report_of_base(data) == export_summary_stats(to_records(df))
download_report(data) ==
  IF Len(data) = 0 THEN NoFile ELSE export_summary_stats(data)

(***************************************************************************)
(* The aggregation of update_dashboard: KPIs, cards, charts, hourly trend. *)
(***************************************************************************)
total_revenue(t) == SumOf(t, "revenue")
total_interactions(t) == Len(t)
purchases(t) == SumOf(t, "purchase_flag")
conversion_rate(t) ==
  IF total_interactions(t) > 0
  THEN Ratio(purchases(t) * 100, total_interactions(t))
  ELSE Ratio(0, 1)
demo_count(t) == Count([i \in DOMAIN t |-> t[i].request_type = "demo"])
\* variant: every purchase counted as a purchased demo
demo_purchases_any_request(t) == purchases(t)
demo_purchases(t) ==
  Count([i \in DOMAIN t |-> t[i].request_type = "demo" /\ t[i].purchase_flag = 1])
demo_rate(t) ==
  IF demo_count(t) > 0
  THEN Ratio(demo_purchases(t) * 100, demo_count(t))
  ELSE Ratio(0, 1)
jobs_placed(t) == Count([i \in DOMAIN t |-> t[i].job_type # "None"])
ai_assist_requests(t) == Count([i \in DOMAIN t |-> t[i].request_type = "ai_assist"])
promo_requests(t) == Count([i \in DOMAIN t |-> t[i].request_type = "promo"])

\* value >= target * 0.9, value >= target * 0.7, in exact arithmetic
\* variant: on track only above 0.9 of the target
card_status_strict(value, target) ==
  IF 10 * value.num > 9 * target * value.den THEN "success"
  ELSE IF 10 * value.num >= 7 * target * value.den THEN "warning"
  ELSE "danger"
card_status(value, target) ==
  IF 10 * value.num >= 9 * target * value.den THEN "success"
  ELSE IF 10 * value.num >= 7 * target * value.den THEN "warning"
  ELSE "danger"
create_metric_card(title, value, target, unit) ==
  [title  |-> title,
   value  |-> value,
   target |-> target,
   unit   |-> unit,
   status |-> card_status(value, target)]

make_kpi_cards(t) ==
  <<create_metric_card("Revenue", Ratio(total_revenue(t), 1), targets.revenue, "$"),
    create_metric_card("Conversion Rate", conversion_rate(t),
                       targets.conversion_rate, "%"),
    create_metric_card("Demo-to-Purchase", demo_rate(t),
                       targets.demo_to_purchase, "%"),
    create_metric_card("Jobs Placed", Ratio(jobs_placed(t), 1),
                       targets.jobs_placed, ""),
    create_metric_card("AI Assist Requests", Ratio(ai_assist_requests(t), 1),
                       targets.ai_assist_requests, ""),
    create_metric_card("Promo Requests", Ratio(promo_requests(t), 1),
                       targets.promo_requests, "")>>

\* a figure: its title, its data (key -> value) and, for the map, its scope
Figure(title, data, scope) == [title |-> title, data |-> data, scope |-> scope]
\* go.Figure() with only a title: the placeholder of the failure returns
empty_fig(title) == Figure(title, <<>>, "")
SixOf(f) == [fig_bar |-> f, fig_pie |-> f, fig_job |-> f,
             fig_affiliate |-> f, fig_map |-> f, fig_trend |-> f]

\* groupby(key)[col].sum(): a value for every key present
GroupSum(t, key, col) ==
  [k \in {t[i][key] : i \in DOMAIN t} |->
     SumSeq([i \in DOMAIN t |-> IF t[i][key] = k THEN t[i][col] ELSE 0])]
\* value_counts(): a count for every key present
GroupCount(t, key) ==
  [k \in {t[i][key] : i \in DOMAIN t} |-> Count([i \in DOMAIN t |-> t[i][key] = k])]
Restrict(f, S) == [k \in S |-> f[k]]

revenue_bar(t) ==
  LET revenue_data == GroupSum(t, "salesperson_id", "revenue")
  IN Figure("Revenue by Salesperson",
            [k \in DOMAIN revenue_data |->
               [revenue |-> revenue_data[k], target |-> targets.revenue]],
            "")
request_pie(t) ==
  Figure("Request Type Distribution", GroupCount(t, "request_type"), "")
job_type_bar(t) ==
  Figure("Jobs by Type",
         GroupCount(SelectSeq(t, LAMBDA r : r.job_type # "None"),
                    "job_type"),
         "")
affiliate_bar(t) ==
  LET affiliate_data == GroupSum(t, "affiliate_code", "revenue")
  IN Figure("Revenue by Marketing Channel (Affiliate Code)",
            Restrict(affiliate_data, DOMAIN affiliate_data \ {"None"}),
            "")
\* continent.lower()
lower(c) == IF c = "Europe" THEN "europe" ELSE IF c = "Asia" THEN "asia" ELSE c
revenue_map(t, c) ==
  Figure("Revenue by Country",
         GroupSum(t, "country", "revenue"),
         IF Truthy(c) THEN lower(c) ELSE "world")

\* the rows the trend is drawn from: all of them for 'average', the rows of
\* the selected date otherwise
trend_rows(t, tv) ==
  IF tv = "average" THEN t
  ELSE LET selected_date == to_datetime(tv).date
       IN SelectSeq(t, LAMBDA r : r.timestamp.date = selected_date)
\* groupby(['hour', 'request_type']).size().unstack(fill_value=0) merged with
\* the job placements per hour: one row for every hour that has rows
trend_by_hour(t) ==
  LET hs == Sorted({t[i].timestamp.hour : i \in DOMAIN t})
      n(h, rt) ==
        Count([i \in DOMAIN t |-> t[i].timestamp.hour = h /\ t[i].request_type = rt])
  IN [k \in DOMAIN hs |->
        [hour           |-> hs[k],
         promo          |-> n(hs[k], "promo"),
         demo           |-> n(hs[k], "demo"),
         ai_assist      |-> n(hs[k], "ai_assist"),
         job_placements |->
           Count([i \in DOMAIN t |->
                    t[i].timestamp.hour = hs[k] /\ t[i].job_type # "None"])]]
\* variant: an inner merge, keeping only the hours that have rows
inner_merge_hours(h, td) == SelectSeq(td, LAMBDA x : x.hour >= h)
RECURSIVE left_merge_hours(_, _)
\* all_hours.merge(trend_data, on='hour', how='left').fillna(0), from hour h on
left_merge_hours(h, td) ==
  IF h > 23 THEN <<>>
  ELSE LET hit == SelectSeq(td, LAMBDA x : x.hour = h)
       IN (IF hit = <<>>
           THEN <<[hour |-> h, promo |-> 0, demo |-> 0, ai_assist |-> 0,
                   job_placements |-> 0]>>
           ELSE hit) \o left_merge_hours(h + 1, td)
trend_graph(t, tv) ==
  Figure(IF tv = "average"
         THEN "Average Hourly Trends: Promo, Demo, AI Assist, and Job Placements"
         ELSE "Hourly Trends on " \o IsoDate(to_datetime(tv).date)
              \o ": Promo, Demo, AI Assist, and Job Placements",
         left_merge_hours(0, trend_by_hour(trend_rows(t, tv))),
         "")

(***************************************************************************)
(* update_dashboard: one recomputation cycle, as the bundle it returns.    *)
(***************************************************************************)
\* the filter values a cycle computes with
Args(c, cs, ps, s, e, tv) ==
  [continent |-> c, countries |-> cs, products |-> ps,
   start_date |-> s, end_date |-> e, trend_view |-> tv]
\* before the first cycle
NoArgs == Args(None, NoneList, NoneList, None, None, None)

\* the return of the three failure paths: everything emptied, the controls
\* put back to their defaults
failure_bundle(a, title, message) ==
  [args           |-> a,
   outcome        |-> title,
   kpi_cards      |-> <<>>,
   figures        |-> SixOf(empty_fig(title)),
   filtered_data  |-> <<>>,
   error_message  |-> message,
   continent      |-> None,
   countries      |-> <<>>,
   products       |-> <<>>,
   start_date     |-> IsoDate(min_date),
   end_date       |-> IsoDate(max_date),
   stats_table    |-> <<>>]
\* variant: InvalidDateRange reporting the date fields of the cycle
invalid_date_keeps_dates(a) ==
  [failure_bundle(a, "Invalid Date Range", "Invalid date range selected")
     EXCEPT !.start_date = a.start_date, !.end_date = a.end_date]
invalid_date_range(a) ==
  failure_bundle(a, "Invalid Date Range", "Invalid date range selected")
\* variant: EmptyResult reporting the filter values of the cycle
no_data_keeps_controls(a) ==
  [failure_bundle(a, "No Data Available", "No data available for selected filters")
     EXCEPT !.continent = a.continent, !.countries = a.countries,
            !.products = a.products, !.start_date = a.start_date,
            !.end_date = a.end_date]
no_data_available(a) ==
  failure_bundle(a, "No Data Available", "No data available for selected filters")
\* variant: the exception leaves update_dashboard, and Dash writes no output
error_propagates(a, e) ==
  [args           |-> a,
   outcome        |-> "raised",
   kpi_cards      |-> kpi_cards,
   figures        |-> figures,
   filtered_data  |-> filtered_data,
   error_message  |-> error_message,
   continent      |-> continent,
   countries      |-> countries,
   products       |-> products,
   start_date     |-> start_date,
   end_date       |-> end_date,
   stats_table    |-> summary_stats_table]
error_occurred(a, e) ==
  failure_bundle(a, "Error Occurred", "Error updating dashboard: " \o e)

\* variant: the healthy return reporting the date range of the data
healthy_bundle_full_range(a, filtered_df) ==
  [args           |-> a,
   outcome        |-> "",
   kpi_cards      |-> make_kpi_cards(filtered_df),
   figures        |-> [fig_bar       |-> revenue_bar(filtered_df),
                       fig_pie       |-> request_pie(filtered_df),
                       fig_job       |-> job_type_bar(filtered_df),
                       fig_affiliate |-> affiliate_bar(filtered_df),
                       fig_map       |-> revenue_map(filtered_df, a.continent),
                       fig_trend     |-> trend_graph(filtered_df, a.trend_view)],
   filtered_data  |-> to_records(filtered_df),
   error_message  |-> "",
   continent      |-> a.continent,
   countries      |-> a.countries,
   products       |-> a.products,
   start_date     |-> IsoDate(min_date),
   end_date       |-> IsoDate(max_date),
   stats_table    |-> live_summary_stats(filtered_df)]
\* the final return of update_dashboard, for a non-empty filtered_df
healthy_bundle(a, filtered_df) ==
  [args           |-> a,
   outcome        |-> "",
   kpi_cards      |-> make_kpi_cards(filtered_df),
   figures        |-> [fig_bar       |-> revenue_bar(filtered_df),
                       fig_pie       |-> request_pie(filtered_df),
                       fig_job       |-> job_type_bar(filtered_df),
                       fig_affiliate |-> affiliate_bar(filtered_df),
                       fig_map       |-> revenue_map(filtered_df, a.continent),
                       fig_trend     |-> trend_graph(filtered_df, a.trend_view)],
   filtered_data  |-> to_records(filtered_df),
   error_message  |-> "",
   continent      |-> a.continent,
   countries      |-> a.countries,
   products       |-> a.products,
   start_date     |-> IF Truthy(a.start_date) /\ Truthy(a.end_date)
                      THEN IsoDate(to_datetime(a.start_date).date)
                      ELSE a.start_date,
   end_date       |-> IF Truthy(a.start_date) /\ Truthy(a.end_date)
                      THEN IsoDate(to_datetime(a.end_date).date)
                      ELSE a.end_date,
   stats_table    |-> live_summary_stats(filtered_df)]

\* the exception the trend step raises, "" when it raises none
trend_error(tv) ==
  IF tv = "average" THEN ""
  ELSE IF tv = None THEN "'NoneType' object has no attribute 'date'"
  ELSE IF ~Parses(tv) THEN "Unknown datetime string format, unable to parse: " \o tv
  ELSE ""

\* the body of update_dashboard after the reset handling, for the base table
\* without rows: filtered_df is then pd.DataFrame(), a frame without columns
cycle_without_rows(a) ==
  IF Truthy(a.continent) THEN error_occurred(a, "'continent'")
  ELSE IF TruthyList(a.countries) THEN error_occurred(a, "'country'")
  ELSE IF TruthyList(a.products) THEN error_occurred(a, "'product_type'")
  ELSE IF Truthy(a.start_date) /\ Truthy(a.end_date) THEN invalid_date_range(a)
  ELSE no_data_available(a)

\* the body of update_dashboard after the reset handling, for a base table
\* with rows
cycle_with_rows(a) ==
  IF Truthy(a.start_date) /\ Truthy(a.end_date)
     /\ ~(Parses(a.start_date) /\ Parses(a.end_date))
  THEN invalid_date_range(a)
  ELSE LET filtered_df == apply_filters(df, a.continent, a.countries, a.products,
                                        a.start_date, a.end_date)
       IN IF filtered_df = <<>> THEN no_data_available(a)
          ELSE IF trend_error(a.trend_view) # ""
          THEN error_occurred(a, trend_error(a.trend_view))
          ELSE healthy_bundle(a, filtered_df)

\* variant: a reset that leaves the date range as it was
handle_reset_keeps_dates(a) ==
  Args(None, <<>>, <<>>, a.start_date, a.end_date, "average")
\* the reset handling: what the six arguments are set to when the trigger is
\* reset-button (min_date and max_date are date objects; to_datetime reads
\* them as it reads their ISO strings)
handle_reset(a) ==
  Args(None, <<>>, <<>>, IsoDate(min_date), IsoDate(max_date), "average")

update_dashboard(c, cs, ps, s, e, reset, tv) ==
  LET a == IF reset
           THEN handle_reset(Args(c, cs, ps, s, e, tv))
           ELSE Args(c, cs, ps, s, e, tv)
  IN IF df = <<>> THEN cycle_without_rows(a) ELSE cycle_with_rows(a)

(***************************************************************************)
(* The callbacks as actions.                                               *)
(***************************************************************************)
\* one cycle of update_dashboard on the control values as the browser sends
\* them, its outputs written to the components; update_country_filter follows
\* the continent value
Cycle(c, cs, ps, s, e, tv, trig) ==
  \E b \in {update_dashboard(c, cs, ps, s, e, trig = "reset", tv)} :
     /\ args' = b.args
     /\ kpi_cards' = b.kpi_cards
     /\ figures' = b.figures
     /\ filtered_data' = b.filtered_data
     /\ error_message' = b.error_message
     /\ continent' = b.continent
     /\ countries' = b.countries
     /\ products' = b.products
     /\ start_date' = b.start_date
     /\ end_date' = b.end_date
     /\ summary_stats_table' = b.stats_table
     /\ trend_view' = tv
     /\ country_options' = update_country_filter(b.continent)
     /\ trigger' = trig
     /\ UNCHANGED <<df, download_data, targets>>

\* whether update_dashboard has run
Loaded == args # NoArgs

\* the call Dash makes when the page loads (prevent_initial_call=False)
InitialLoad ==
  /\ ~Loaded
  /\ Cycle(continent, countries, products, start_date, end_date, trend_view, "initial")

ChangeContinent(v) ==
  /\ Loaded /\ v # continent
  /\ Cycle(v, countries, products, start_date, end_date, trend_view, "filter-change")
ChangeCountries(v) ==
  /\ Loaded /\ v # countries
  /\ Cycle(continent, v, products, start_date, end_date, trend_view, "filter-change")
ChangeProducts(v) ==
  /\ Loaded /\ v # products
  /\ Cycle(continent, countries, v, start_date, end_date, trend_view, "filter-change")
ChangeStartDate(v) ==
  /\ Loaded /\ v # start_date
  /\ Cycle(continent, countries, products, v, end_date, trend_view, "filter-change")
ChangeEndDate(v) ==
  /\ Loaded /\ v # end_date
  /\ Cycle(continent, countries, products, start_date, v, trend_view, "filter-change")
ChangeTrendView(v) ==
  /\ Loaded /\ v # trend_view
  /\ Cycle(continent, countries, products, start_date, end_date, v, "filter-change")
\* a click on reset-button
Reset ==
  /\ Loaded
  /\ Cycle(continent, countries, products, start_date, end_date, trend_view, "reset")
\* a click on download-button
Download ==
  /\ download_data' = download_report(filtered_data)
  /\ trigger' = "download"
  /\ UNCHANGED <<df, continent, countries, products, start_date, end_date,
                 trend_view, country_options, args, kpi_cards, figures,
                 filtered_data, error_message, summary_stats_table, targets>>

(***************************************************************************)
(* Input domains and specifications.                                       *)
(***************************************************************************)
\* the continents, countries and products a cycle can be asked for
ContinentInputs == {None, "Europe", "Asia"}
CountryInputs == {<<>>, <<"Germany">>, <<"Japan">>}
ProductInputs == {<<>>, <<"AI-Powered CRM">>}
\* the dates the date picker allows: min_date_allowed .. max_date_allowed
ValidDateInputs == {IsoDate(d) : d \in min_date..max_date}
\* a date picker value: an allowed date, a cleared field, a string that is no date
DateInputs == ValidDateInputs \cup {None, "not-a-date"}
\* the options of trend-view-filter: 'average' and every date of the data
TrendOptions == {"average"} \cup {IsoDate(d) : d \in DatesOf(df)}
\* a trend view value: an option, the cleared dropdown, a string that is no date
TrendInputs == TrendOptions \cup {None, "not-a-date"}

\* the components as the layout builds them, before any callback has run
Layout ==
  /\ continent = None
  /\ countries = NoneList
  /\ products = NoneList
  /\ start_date = IsoDate(min_date)
  /\ end_date = IsoDate(max_date)
  /\ trend_view = "average"
  /\ country_options = {}
  /\ args = NoArgs
  /\ kpi_cards = <<>>
  /\ figures = SixOf(empty_fig(""))
  /\ filtered_data = <<>>
  /\ error_message = None
  /\ summary_stats_table = <<>>
  /\ download_data = NoFile
  /\ trigger = "none"
  /\ targets = TARGETS

\* Spec: the controller on small tables, every filter input and the reset
ControllerRows ==
  Rows({"Germany", "Japan"}, {"AI-Powered CRM"}, {"demo"}, {1}, Days, {10})
Init == df \in Tables(ControllerRows, MaxRows) /\ Layout
Next ==
  \/ InitialLoad
  \/ \E v \in ContinentInputs : ChangeContinent(v)
  \/ \E v \in CountryInputs : ChangeCountries(v)
  \/ \E v \in ProductInputs : ChangeProducts(v)
  \/ \E v \in DateInputs : ChangeStartDate(v)
  \/ \E v \in DateInputs : ChangeEndDate(v)
  \/ \E v \in TrendInputs : ChangeTrendView(v)
  \/ Reset
Spec == Init /\ [][Next]_vars

\* SpecDownload: downloads between cycles of every outcome
NextDownload ==
  \/ InitialLoad
  \/ \E v \in ContinentInputs : ChangeContinent(v)
  \/ \E v \in DateInputs : ChangeStartDate(v)
  \/ \E v \in TrendInputs : ChangeTrendView(v)
  \/ Reset
  \/ Download
SpecDownload == Init /\ [][NextDownload]_vars

\* SpecFilter: every table over rows that differ in the filtered columns,
\* every filter state with a date range that parses
FilterRows == Rows({"Germany", "Japan"}, PRODUCT_TYPES, {"demo"}, {1}, Days, {10})
InitFilter == df \in Tables(FilterRows, MaxFilterRows) /\ Layout
NextFilter ==
  \/ InitialLoad
  \/ \E v \in ContinentInputs : ChangeContinent(v)
  \/ \E v \in CountryInputs : ChangeCountries(v)
  \/ \E v \in ProductInputs : ChangeProducts(v)
  \/ \E v \in ValidDateInputs \cup {None} : ChangeStartDate(v)
  \/ \E v \in ValidDateInputs \cup {None} : ChangeEndDate(v)
SpecFilter == InitFilter /\ [][NextFilter]_vars

\* SpecAgg: every table over rows that differ in the aggregated columns,
\* every start date, every trend view, the download
AggRows == Rows({"Germany"}, {"AI-Powered CRM"}, REQUEST_TYPES, {0, 1}, Days, {10, 23})
InitAgg == df \in Tables(AggRows, MaxAggRows) /\ Layout
NextAgg ==
  \/ InitialLoad
  \/ \E v \in ValidDateInputs : ChangeStartDate(v)
  \/ \E v \in TrendInputs : ChangeTrendView(v)
  \/ Download
SpecAgg == InitAgg /\ [][NextAgg]_vars

\* SpecCard: tables whose KPIs lie on either side of the card thresholds
\* (0.7 and 0.9 of each target): demo rows of which p were purchased, k rows
\* of one request type, one job row carrying the whole revenue
Repeat(r, n) == [i \in 1..n |-> r]
DemoTable(p) ==
  Repeat(Row("Germany", "AI-Powered CRM", "demo", 1, 1, 10), p)
    \o Repeat(Row("Germany", "AI-Powered CRM", "demo", 0, 1, 10), MaxCardRows - p)
CountTable(rt, k) == Repeat(Row("Germany", "AI-Powered CRM", rt, 0, 1, 10), k)
RevenueTable(x) ==
  <<[Row("Germany", "AI-Powered CRM", "job", 1, 1, 10) EXCEPT !.revenue = x]>>
PurchasedDemos == {13, 14, 17, 18, 20, 21, 26, 27}
CardCounts == {34, 35, 44, 45, 69, 70, 89, 90}
CardRevenues == {349999, 350000, 449999, 450000}
CardTables ==
  {DemoTable(p) : p \in PurchasedDemos}
    \cup {CountTable(rt, k) : rt \in {"ai_assist", "promo", "job"}, k \in CardCounts}
    \cup {RevenueTable(x) : x \in CardRevenues}
InitCard == df \in CardTables /\ Layout
NextCard ==
  \/ InitialLoad
  \/ \E v \in ProductInputs : ChangeProducts(v)
  \/ Reset
SpecCard == InitCard /\ [][NextCard]_vars

(***************************************************************************)
(* Properties.                                                             *)
(***************************************************************************)
\* how the last cycle ended
Healthy == Loaded /\ error_message = ""
EmptyResult == error_message = "No data available for selected filters"
InvalidDateRange == error_message = "Invalid date range selected"
AggregationError == Loaded /\ ~Healthy /\ ~EmptyResult /\ ~InvalidDateRange
\* all six figures are the placeholder with this title
PlaceholdersTitled(title) == figures = SixOf(empty_fig(title))
\* the outputs of a failure return, apart from message, figures, controls
OutputsEmptied ==
  kpi_cards = <<>> /\ filtered_data = <<>> /\ summary_stats_table = <<>>
\* the date bounds of the last cycle both parse
BoundsParse ==
  /\ Truthy(args.start_date) /\ Truthy(args.end_date)
  /\ Parses(args.start_date) /\ Parses(args.end_date)
\* the date bounds of the last cycle are usable: missing, or both parse
BoundsUsable == ~(Truthy(args.start_date) /\ Truthy(args.end_date)) \/ BoundsParse
\* the controls show the defaults of the failure returns
ControlsAtDefaults ==
  /\ continent = None /\ countries = <<>> /\ products = <<>>
  /\ start_date = IsoDate(min_date) /\ end_date = IsoDate(max_date)
\* the rows of t that satisfy every set predicate of the filter values a
Matching(t, a) ==
  SelectSeq(t, LAMBDA r :
    /\ Truthy(a.continent) => r.continent = a.continent
    /\ TruthyList(a.countries) => isin(r.country, a.countries)
    /\ TruthyList(a.products) => isin(r.product_type, a.products)
    /\ (Truthy(a.start_date) /\ Truthy(a.end_date)) =>
         /\ r.timestamp.date >= to_datetime(a.start_date).date
         /\ r.timestamp.date <= to_datetime(a.end_date).date)

\* C1: when both date bounds parse and start > end, the cycle ends in
\* InvalidDateRange: every figure is the placeholder titled "Invalid Date
\* Range" and the date fields report min_date and max_date.
C1_StartAfterEndIsInvalidDateRange ==
  (/\ Loaded
   /\ BoundsParse
   /\ to_datetime(args.start_date).date > to_datetime(args.end_date).date)
  => /\ PlaceholdersTitled("Invalid Date Range")
     /\ InvalidDateRange
     /\ start_date = IsoDate(min_date)
     /\ end_date = IsoDate(max_date)

\* the bundle of the load of the page: the cycle on the values of the layout
InitialBundle ==
  update_dashboard(None, NoneList, NoneList, IsoDate(min_date), IsoDate(max_date),
                   FALSE, "average")
\* C2: a cycle triggered by reset computes with continent None, no countries,
\* no products, the full date range and the average trend view, and its KPI
\* cards, figures, summary table, retained rows and message are those of the
\* load of the page.
C2_ResetEqualsInitialLoad ==
  trigger = "reset" =>
    /\ args = Args(None, <<>>, <<>>, IsoDate(min_date), IsoDate(max_date), "average")
    /\ kpi_cards = InitialBundle.kpi_cards
    /\ figures = InitialBundle.figures
    /\ summary_stats_table = InitialBundle.stats_table
    /\ filtered_data = InitialBundle.filtered_data
    /\ error_message = InitialBundle.error_message
\* a reset after a date was chosen as trend view, on a table of two rows
C2_Witness ==
  trigger = "reset" /\ trend_view \in ValidDateInputs /\ Len(filtered_data) = 2

C4_NoMatchIsEmptyResult ==
  (Loaded /\ BoundsUsable /\ Matching(df, args) = <<>>) =>
    /\ EmptyResult
    /\ PlaceholdersTitled("No Data Available")
    /\ OutputsEmptied

\* C5: the store holds the records of the rows the last cycle filtered when
\* that cycle was healthy and nothing otherwise; a download yields the report
\* over exactly those rows, and no file when no cycle has run or the last
\* cycle ended in InvalidDateRange, EmptyResult or an aggregation error.
C5_DownloadUsesRetainedRows ==
  /\ filtered_data = IF Healthy THEN to_records(Matching(df, args)) ELSE <<>>
  /\ trigger = "download" =>
       download_data = IF Healthy
                       THEN export_summary_stats(to_records(Matching(df, args)))
                       ELSE NoFile
\* a download after a cycle that retained some rows of the base table, not all
C5_Witness ==
  /\ trigger = "download" /\ download_data # NoFile
  /\ Len(filtered_data) < Len(df)

\* the rows the store holds, read back as rows of the base table
retained_rows(records) ==
  [i \in DOMAIN records |->
     [timestamp      |-> to_datetime(records[i].timestamp),
      continent      |-> records[i].continent,
      country        |-> records[i].country,
      salesperson_id |-> records[i].salesperson_id,
      product_type   |-> records[i].product_type,
      request_type   |-> records[i].request_type,
      job_type       |-> records[i].job_type,
      revenue        |-> records[i].revenue,
      purchase_flag  |-> records[i].purchase_flag,
      affiliate_code |-> records[i].affiliate_code]]
\* s holds rows of t, in the order of t
IsSubTable(s, t) ==
  \E f \in [DOMAIN s -> DOMAIN t] :
    /\ \A i, j \in DOMAIN s : i < j => f[i] < f[j]
    /\ \A i \in DOMAIN s : s[i] = t[f[i]]
\* C6: the rows a cycle retains are rows of the base table, and the same
\* filter values applied to the retained rows return the retained rows.
C6_FilterSubsetIdempotent ==
  Healthy =>
    LET kept == retained_rows(filtered_data)
    IN /\ IsSubTable(kept, df)
       /\ apply_filters(kept, args.continent, args.countries, args.products,
                        args.start_date, args.end_date) = kept
\* a cycle whose continent, product and date filters kept one row of two
C6_Witness ==
  /\ Healthy /\ Len(filtered_data) = 1 /\ Len(df) = 2
  /\ Truthy(args.continent) /\ TruthyList(args.products)
  /\ args.start_date = args.end_date

\* the four filter steps by number, and their application in a given order
filter_step(k, t, a) ==
  CASE k = 1 -> by_continent(t, a.continent)
    [] k = 2 -> by_countries(t, a.countries)
    [] k = 3 -> by_products(t, a.products)
    [] k = 4 -> by_dates(t, a.start_date, a.end_date)
apply_in_order(p, t, a) ==
  filter_step(p[4], filter_step(p[3], filter_step(p[2], filter_step(p[1], t, a), a), a), a)
Orders == {p \in [1..4 -> 1..4] : \A i, j \in 1..4 : i # j => p[i] # p[j]}
\* C7: the four filter steps applied in any order give the rows that satisfy
\* every set predicate, and these are the rows the cycle retained.
C7_FilterOrderIndependent ==
  (Loaded /\ df # <<>> /\ BoundsUsable) =>
    /\ \A p \in Orders : apply_in_order(p, df, args) = Matching(df, args)
    /\ IF Matching(df, args) = <<>>
       THEN EmptyResult /\ filtered_data = <<>>
       ELSE Healthy /\ filtered_data = to_records(Matching(df, args))
\* a cycle with all four filters set that kept one row of two
C7_Witness ==
  /\ Healthy /\ Len(filtered_data) = 1 /\ Len(df) = 2
  /\ Truthy(args.continent) /\ TruthyList(args.countries)
  /\ TruthyList(args.products) /\ Truthy(args.start_date) /\ Truthy(args.end_date)

\* the rates on the cards, and the counts they are made of, over the store
card_conversion_rate == kpi_cards[2].value
card_demo_rate == kpi_cards[3].value
retained_demo_count ==
  Count([i \in DOMAIN filtered_data |-> filtered_data[i].request_type = "demo"])
retained_purchases == SumOf(filtered_data, "purchase_flag")
retained_demo_purchases ==
  Count([i \in DOMAIN filtered_data |->
           filtered_data[i].request_type = "demo" /\ filtered_data[i].purchase_flag = 1])
FlagsAreBinary == \A i \in DOMAIN filtered_data : filtered_data[i].purchase_flag \in {0, 1}
InPercentRange(v) == v.den > 0 /\ 0 <= v.num /\ v.num <= 100 * v.den
\* C8 as stated: both rates lie in [0,100] and each is 0 exactly when its
\* denominator is 0.
C8_RatesZeroIffDenominatorZero ==
  (Healthy /\ FlagsAreBinary) =>
    /\ InPercentRange(card_conversion_rate)
    /\ InPercentRange(card_demo_rate)
    /\ card_conversion_rate.num = 0 <=> Len(filtered_data) = 0
    /\ card_demo_rate.num = 0 <=> retained_demo_count = 0
\* C8 as amended: both rates lie in [0,100], each is 0 when its denominator
\* is 0, and each is 0 exactly when its numerator (purchases, purchased demos)
\* is 0.
C8_RatesInRange ==
  (Healthy /\ FlagsAreBinary) =>
    /\ InPercentRange(card_conversion_rate)
    /\ InPercentRange(card_demo_rate)
    /\ Len(filtered_data) = 0 => card_conversion_rate.num = 0
    /\ retained_demo_count = 0 => card_demo_rate.num = 0
    /\ card_conversion_rate.num = 0 <=> retained_purchases = 0
    /\ card_demo_rate.num = 0 <=> retained_demo_purchases = 0
\* two demo rows, one of them purchased
C8_Witness ==
  /\ Healthy /\ retained_demo_count = 2 /\ retained_demo_purchases = 1
  /\ card_demo_rate.num * 2 = 100 * card_demo_rate.den

\* the rows of the trend figure
trend_data == figures.fig_trend.data
SeriesSum(col) == SumOf(trend_data, col)
\* C9: in a healthy cycle the hourly trend has one entry for each hour 0..23,
\* in order, with counts >= 0; in 'average' mode each series sums to the
\* count of its kind over the retained rows.
C9_HourlyTrendComplete ==
  Healthy =>
    /\ Len(trend_data) = 24
    /\ \A h \in Hours :
         /\ trend_data[h + 1].hour = h
         /\ trend_data[h + 1].promo >= 0 /\ trend_data[h + 1].demo >= 0
         /\ trend_data[h + 1].ai_assist >= 0 /\ trend_data[h + 1].job_placements >= 0
    /\ args.trend_view = "average" =>
         /\ SeriesSum("promo") = kpi_cards[6].value.num
         /\ SeriesSum("demo") = retained_demo_count
         /\ SeriesSum("ai_assist") = kpi_cards[5].value.num
         /\ SeriesSum("job_placements") = kpi_cards[4].value.num
\* a healthy cycle whose trend view is a date on which no retained row falls
C9_Witness ==
  /\ Healthy /\ args.trend_view # "average"
  /\ \A i \in DOMAIN filtered_data : filtered_data[i].date # args.trend_view

\* C10: the report of a download and the summary table of the live view give,
\* for each of the four metrics, the same mean, median and standard deviation
\* once the report is rounded to two decimals.
C10_ExportMatchesLiveSummary ==
  (trigger = "download" /\ download_data # NoFile) =>
    /\ Len(summary_stats_table) = 4
    /\ \A m \in 1..4 :
         /\ download_data[m].Metric = summary_stats_table[m].Metric
         /\ round2(download_data[m].Mean) = summary_stats_table[m].Mean
         /\ round2(download_data[m].Median) = summary_stats_table[m].Median
         /\ round2(download_data[m].Std) = summary_stats_table[m].Std
\* a download over rows of two days whose demo counts differ
C10_Witness ==
  /\ trigger = "download" /\ download_data # NoFile
  /\ download_data[1].Std.kind = "sqrt" /\ download_data[1].Std.num > 0

\* the trend view of the last cycle is neither 'average' nor a date
TrendViewUnusable ==
  args.trend_view # "average" /\ (args.trend_view = None \/ ~Parses(args.trend_view))
\* C11: every cycle, whatever its trigger and inputs, ends with all its
\* outputs written: either the healthy bundle or an emptied one with a
\* message; a cycle whose aggregation fails (here: rows to aggregate and a
\* trend view that is missing or no date) ends with no KPI card, the
\* placeholders titled "Error Occurred", no retained row, no summary table
\* and the generic message.
C11_ErrorsContainedInCycle ==
  Loaded =>
    /\ error_message # None
    /\ Healthy \/ (OutputsEmptied /\ error_message # "")
    /\ (df # <<>> /\ BoundsUsable /\ Matching(df, args) # <<>> /\ TrendViewUnusable)
         => AggregationError
    /\ AggregationError =>
         /\ OutputsEmptied
         /\ PlaceholdersTitled("Error Occurred")
         /\ \E e \in {"'NoneType' object has no attribute 'date'",
                      "Unknown datetime string format, unable to parse: not-a-date",
                      "'continent'", "'country'", "'product_type'"} :
              error_message = "Error updating dashboard: " \o e
\* a cycle after the trend view was cleared, following a healthy cycle
C11_Witness ==
  /\ trigger = "filter-change" /\ AggregationError
  /\ args.trend_view = None /\ Matching(df, args) # <<>>

\* C12: a reset puts the trend view back to 'average': when a date was
\* selected as trend view before the reset, the filter-change cycle that
\* follows the reset, on a field other than the trend view, computes with
\* trend_view = 'average' and not with that date.
C12_ResetForcesTrendViewDefault ==
  [][(/\ trigger = "reset"
      /\ trend_view \in TrendOptions \ {"average"}
      /\ trigger' = "filter-change"
      /\ trend_view' = trend_view)
     => args'.trend_view = "average"]_vars

\* the controls whose value a step changes
ChangedControls ==
  {f \in {"continent", "countries", "products", "start_date", "end_date"} :
     \/ f = "continent" /\ continent' # continent
     \/ f = "countries" /\ countries' # countries
     \/ f = "products" /\ products' # products
     \/ f = "start_date" /\ start_date' # start_date
     \/ f = "end_date" /\ end_date' # end_date}
\* C13: a healthy cycle triggered by a filter-change reports back, for
\* continent, countries, products, start date and end date, the values it was
\* called with, and these differ from the values the controls showed before
\* in at most the one field the user changed.
C13_HealthyCycleKeepsControls ==
  [][(trigger' = "filter-change" /\ Healthy') =>
       /\ continent' = args'.continent
       /\ countries' = args'.countries
       /\ products' = args'.products
       /\ start_date' = args'.start_date
       /\ end_date' = args'.end_date
       /\ Cardinality(ChangedControls) <= 1]_vars
\* a healthy filter-change cycle with a continent, a country, a product and
\* a date range narrower than the data, all persisting
C13_Witness ==
  /\ trigger = "filter-change" /\ Healthy
  /\ continent = "Asia" /\ countries = <<"Japan">> /\ products = <<"AI-Powered CRM">>
  /\ start_date = end_date /\ min_date < max_date

\* the calendar dates of the retained rows, and whether a request type occurs
retained_dates == {filtered_data[i].date : i \in DOMAIN filtered_data}
Occurs(rt) == \E i \in DOMAIN filtered_data : filtered_data[i].request_type = rt
Defined(v) == v.kind # "nan"
IsZero(v) == v.kind # "nan" /\ v.num = 0
\* C14: in a healthy cycle every metric of the summary table has a defined
\* mean, median and standard deviation; when all retained rows fall on one
\* date every standard deviation is 0; a request type (demo, ai_assist,
\* promo) that does not occur has mean 0, median 0 and standard deviation 0.
C14_SummaryStatsDefined ==
  Healthy =>
    /\ \A m \in 1..4 :
         /\ Defined(summary_stats_table[m].Mean)
         /\ Defined(summary_stats_table[m].Median)
         /\ Defined(summary_stats_table[m].Std)
         /\ Cardinality(retained_dates) < 2 => IsZero(summary_stats_table[m].Std)
    /\ \A m \in 1..3 :
         ~Occurs(<<"demo", "ai_assist", "promo">>[m]) =>
           /\ IsZero(summary_stats_table[m].Mean)
           /\ IsZero(summary_stats_table[m].Median)
           /\ IsZero(summary_stats_table[m].Std)

\* the key of TARGETS behind each card, and each KPI over the retained rows
CardKeys == <<"revenue", "conversion_rate", "demo_to_purchase", "jobs_placed",
              "ai_assist_requests", "promo_requests">>
retained_count(rt) ==
  Count([i \in DOMAIN filtered_data |-> filtered_data[i].request_type = rt])
retained_kpi(k) ==
  CASE k = 1 -> Ratio(SumOf(filtered_data, "revenue"), 1)
    [] k = 2 -> Ratio(100 * retained_purchases, Len(filtered_data))
    [] k = 3 -> IF retained_demo_count > 0
                THEN Ratio(100 * retained_demo_purchases, retained_demo_count)
                ELSE Ratio(0, 1)
    [] k = 4 -> Ratio(Count([i \in DOMAIN filtered_data |->
                               filtered_data[i].job_type # "None"]), 1)
    [] k = 5 -> Ratio(retained_count("ai_assist"), 1)
    [] k = 6 -> Ratio(retained_count("promo"), 1)
\* C15: each of the six cards pairs its KPI value v with its target t of
\* TARGETS and has exactly one status: on track (success) iff v >= 0.9 t,
\* needs attention (warning) iff 0.7 t <= v < 0.9 t, below target (danger)
\* iff v < 0.7 t; and TARGETS is what the module assigned, after any cycle.
C15_CardStatusThresholds ==
  /\ targets = TARGETS
  /\ Healthy =>
       /\ Len(kpi_cards) = 6
       /\ \A k \in 1..6 :
            LET c == kpi_cards[k]
                v == c.value
                t == TARGETS[CardKeys[k]]
            IN /\ v = retained_kpi(k)
               /\ c.target = t
               /\ c.status \in {"success", "warning", "danger"}
               /\ c.status = "success" <=> 10 * v.num >= 9 * t * v.den
               /\ c.status = "warning" <=>
                    (7 * t * v.den <= 10 * v.num /\ 10 * v.num < 9 * t * v.den)
               /\ c.status = "danger" <=> 10 * v.num < 7 * t * v.den
\* demo rate exactly 0.7 of its target (needs attention), conversion rate
\* above 0.9 of its target (on track), revenue below 0.7 (below target)
C15_Witness ==
  /\ Healthy
  /\ 10 * kpi_cards[3].value.num = 7 * TARGETS.demo_to_purchase * kpi_cards[3].value.den
  /\ kpi_cards[3].status = "warning"
  /\ kpi_cards[2].status = "success"
  /\ kpi_cards[1].status = "danger"

\* the distinct countries of the rows of a continent, all of them for None
CountriesOf(c) ==
  {df[i].country : i \in {j \in DOMAIN df : c = None \/ df[j].continent = c}}
\* the last cycle was asked for a continent and for countries none of which
\* belongs to it
CountriesOutsideContinent ==
  /\ Truthy(args.continent) /\ TruthyList(args.countries)
  /\ \A i \in DOMAIN args.countries : args.countries[i] \notin CountriesOf(args.continent)
\* C16: the country options for a continent C are exactly the distinct
\* countries of the rows of C (all distinct countries for no continent), and
\* they follow the continent the control holds; on a table with rows and with
\* a usable date range, a cycle whose selected countries all lie outside its
\* continent ends in EmptyResult, not in InvalidDateRange nor in an
\* aggregation error.
C16_CountryOptionsFollowContinent ==
  /\ \A c \in ContinentInputs : update_country_filter(c) = CountriesOf(c)
  /\ Loaded => country_options = CountriesOf(continent)
  /\ (Loaded /\ df # <<>> /\ BoundsUsable /\ CountriesOutsideContinent) =>
       /\ EmptyResult
       /\ ~InvalidDateRange /\ ~AggregationError
       /\ filtered_data = <<>>
\* the continent changed to Asia, whose only country is Japan, while Germany
\* was the selected country
C16_Witness ==
  /\ trigger = "filter-change" /\ EmptyResult
  /\ args.continent = "Asia" /\ args.countries = <<"Germany">>
  /\ update_country_filter("Asia") = {"Japan"}
  /\ update_country_filter(None) = {"Germany", "Japan"}

\* the six figures are one and the same placeholder: a title, no data
SamePlaceholder ==
  /\ figures = SixOf(figures.fig_bar)
  /\ figures.fig_bar = empty_fig(figures.fig_bar.title)
\* C17: after every cycle the message is "" iff rows are retained, iff there
\* are exactly six KPI cards and a summary table (of four rows); when the
\* message is not "" there is no KPI card, no retained row and no summary
\* table, the six figures are the same placeholder, and the controls report
\* continent None, no countries, no products, min_date and max_date.
C17_BundleConsistent ==
  Loaded =>
    /\ error_message = "" <=> filtered_data # <<>>
    /\ error_message = "" <=> (Len(kpi_cards) = 6 /\ Len(summary_stats_table) = 4)
    /\ error_message # "" =>
         /\ OutputsEmptied
         /\ SamePlaceholder
         /\ ControlsAtDefaults
\* an InvalidDateRange after a continent, a country and a start date that is
\* no date were given, on a table with rows
C17_Witness ==
  /\ Loaded /\ InvalidDateRange /\ df # <<>>
  /\ args.continent = "Europe" /\ args.countries = <<"Germany">>
  /\ args.start_date = "not-a-date"

====
